---- MODULE Spec2Model ----
(***************************************************************************)
(* SecureBox/main.cpp: the SecureBox grid (toggle, isLocked, getState,     *)
(* shuffle) and openBox, which builds the GF(2) system A*x = b of the      *)
(* grid, reduces it by Gaussian elimination, back-substitutes and replays  *)
(* the toggles.  Vectors and matrices are functions over 0..n-1, as the    *)
(* code's vectors are indexed.                                             *)
(***************************************************************************)
EXTENDS Integers, Sequences, FiniteSets, TLC

\* Largest y*x of the grids explored by Spec (the code accepts any uint32_t).
MaxCells == 12
\* Largest number of toggles the scramble draws (the code draws rng() % 1000).
MaxShuffle == 3
\* Largest y*x of the grids explored by SpecAny, whose grids are arbitrary.
MaxAnyCells == 6

VARIABLES
    ySize,      \* SecureBox::ySize, the y of openBox(y, x)
    xSize,      \* SecureBox::xSize, the x of openBox(y, x)
    box,        \* SecureBox::box
    t,          \* shuffle's countdown
    pc,         \* position in openBox
    A,          \* the matrix of equations
    b,          \* the right-hand side
    col,        \* column of the Gauss loop
    row,        \* row of the loop under the pivot
    xResult,    \* the solution vector
    substRow,   \* row of the reverse substitution
    applyI,     \* index of the replay loop
    locked,     \* openBox's return value
    fault,      \* "none", or the undefined behaviour the run went through
    hist,       \* history: the last two toggle calls, <<y, x, box before>>
    box0,       \* history: the grid as getState returned it to the build
    A0,         \* history: A as the build filled it
    b0,         \* history: b as the build filled it
    skipped     \* history: the columns the Gauss loop skipped for lack of a pivot

vars == <<ySize, xSize, box, t, pc, A, b, col, row, xResult, substRow, applyI,
          locked, fault, hist, box0, A0, b0, skipped>>

Idx(n) == 0 .. (n - 1)

\* y * x, the number of unknowns and of equations (a uint32_t in the code; the
\* grids explored here are far from its wrap).
N == ySize * xSize

AllFalse(n) == [k \in Idx(n) |-> FALSE]

EmptyBox(ys, xs) == [r \in Idx(ys) |-> [c \in Idx(xs) |-> FALSE]]

----------------------------------------------------------------------------
(* SecureBox *)

\* The passes of toggle, each a loop of writes box[..][..] = !box[..][..].
FlipCell(bx, y, x) ==
    [r \in Idx(ySize) |-> [c \in Idx(xSize) |->
        IF r = y /\ c = x THEN ~bx[r][c] ELSE bx[r][c]]]

FlipRow(bx, y) ==
    [r \in Idx(ySize) |-> [c \in Idx(xSize) |->
        IF r = y THEN ~bx[r][c] ELSE bx[r][c]]]

FlipCol(bx, x) ==
    [r \in Idx(ySize) |-> [c \in Idx(xSize) |->
        IF c = x THEN ~bx[r][c] ELSE bx[r][c]]]

\* A toggle without the first write: the row and the column pass only, so
\* that the target cell is written twice and ends as it was.
toggleNoTarget(bx, y, x) == FlipCol(FlipRow(bx, y), x)

\* A toggle that locks the target cell instead of inverting it.
toggleSet(bx, y, x) ==
    [r \in Idx(ySize) |-> [c \in Idx(xSize) |->
        IF r = y /\ c = x THEN TRUE ELSE FlipCol(FlipRow(bx, y), x)[r][c]]]

\* toggle(y, x): the target cell, then its row, then its column; the target
\* cell is written by each of the three.
toggle(bx, y, x) == FlipCol(FlipRow(FlipCell(bx, y, x), y), x)

\* An isLocked that scans the first row only.
isLockedFirstRow(bx) == \E x \in Idx(xSize) : \E y \in Idx(ySize) : y = 0 /\ bx[y][x]

isLocked(bx) == \E x \in Idx(xSize) : \E y \in Idx(ySize) : bx[y][x]

getState(bx) == bx

----------------------------------------------------------------------------
(* openBox: the system of equations *)

\* A build that leaves out the column effect.
BuildRowNoCol(ys, xs, r, c) ==
    [j \in Idx(ys * xs) |->
        \/ j = r * xs + c
        \/ \E k \in Idx(xs) : j = r * xs + k]

\* Row idx = r*xs + c of A after the fill: the diagonal, the row, the column.
BuildRow(ys, xs, r, c) ==
    [j \in Idx(ys * xs) |->
        \/ j = r * xs + c
        \/ \E k \in Idx(xs) : j = r * xs + k
        \/ \E k \in Idx(ys) : j = k * xs + c]

BuildA(ys, xs) ==
    [idx \in Idx(ys * xs) |-> BuildRow(ys, xs, idx \div xs, idx % xs)]

BuildB(bx, ys, xs) ==
    [idx \in Idx(ys * xs) |-> getState(bx)[idx \div xs][idx % xs]]

----------------------------------------------------------------------------
(* openBox: the Gauss loop *)

\* The first row at or under c with a true in column c, or n.
PivotOf(M, c, n) ==
    IF \E p \in c .. (n - 1) : M[p][c]
    THEN CHOOSE p \in c .. (n - 1) : M[p][c] /\ \A q \in c .. (p - 1) : ~M[q][c]
    ELSE n

\* A pivot step that leaves the rows of A where they are.
SwapRowsNone(M, c, p) == M

SwapRows(M, c, p) ==
    [r \in DOMAIN M |-> IF r = c THEN M[p] ELSE IF r = p THEN M[c] ELSE M[r]]

\* A swap of the rows of A that leaves b alone.
SwapBNone(v, c, p) == v

\* tempB = b[col]; b[col] = b[pivot]; b[pivot] = tempB
SwapB(v, c, p) ==
    [r \in DOMAIN v |-> IF r = c THEN v[p] ELSE IF r = p THEN v[c] ELSE v[r]]

\* An elimination that starts one column late and leaves A[r][c] true.
ElimRowALate(M, c, r, n) ==
    IF M[r][c]
    THEN [q \in Idx(n) |->
            IF q = r
            THEN [k \in Idx(n) |-> IF k > c THEN M[r][k] # M[c][k] ELSE M[r][k]]
            ELSE M[q]]
    ELSE M

ElimRowA(M, c, r, n) ==
    IF M[r][c]
    THEN [q \in Idx(n) |->
            IF q = r
            THEN [k \in Idx(n) |-> IF k >= c THEN M[r][k] # M[c][k] ELSE M[r][k]]
            ELSE M[q]]
    ELSE M

\* An elimination that leaves b[row] alone.
ElimRowBNone(M, v, c, r) == v

ElimRowB(M, v, c, r) ==
    IF M[r][c] THEN [q \in DOMAIN v |-> IF q = r THEN v[r] # v[c] ELSE v[q]] ELSE v

----------------------------------------------------------------------------
(* openBox: reverse substitution *)

RECURSIVE SumFrom(_, _, _, _, _, _)
\* sum ^= (A[row][col] & xResult[col]) for col = c .. n-1
SumFrom(M, xr, r, c, n, sum) ==
    IF c >= n THEN sum
    ELSE SumFrom(M, xr, r, c + 1, n, sum # (M[r][c] /\ xr[c]))

\* A substitution that stores the complement of the sum.
SubstRowNeg(M, v, xr, r, n) ==
    [q \in Idx(n) |-> IF q = r THEN ~SumFrom(M, xr, r, r + 1, n, v[r]) ELSE xr[q]]

\* sum = b[row]; the XOR over col > row; xResult[row] = sum
SubstRow(M, v, xr, r, n) ==
    [q \in Idx(n) |-> IF q = r THEN SumFrom(M, xr, r, r + 1, n, v[r]) ELSE xr[q]]

----------------------------------------------------------------------------
(* openBox from the built system to xResult, as one function of (A, b): the
   same steps the actions below take one at a time. *)

RECURSIVE ElimRows(_, _, _, _, _)
\* for (row = r; row < n; ++row) under the pivot of column c
ElimRows(M, v, c, r, n) ==
    IF r >= n THEN <<M, v>>
    ELSE ElimRows(ElimRowA(M, c, r, n), ElimRowB(M, v, c, r), c, r + 1, n)

RECURSIVE GaussCols(_, _, _, _)
\* for (col = c; col < n; ++col)
GaussCols(M, v, c, n) ==
    IF c >= n THEN <<M, v>>
    ELSE LET p == PivotOf(M, c, n)
         IN  IF p = n
             THEN GaussCols(M, v, c + 1, n)
             ELSE LET e == ElimRows(SwapRows(M, c, p), SwapB(v, c, p), c, c + 1, n)
                  IN  GaussCols(e[1], e[2], c + 1, n)

RECURSIVE SubstRows(_, _, _, _, _)
\* for (row = r; row >= 0; --row)
SubstRows(M, v, xr, r, n) ==
    IF r < 0 THEN xr
    ELSE SubstRows(M, v, SubstRow(M, v, xr, r, n), r - 1, n)

SolveX(M, v, n) ==
    LET g == GaussCols(M, v, 0, n)
    IN  SubstRows(g[1], g[2], AllFalse(n), n - 1, n)

----------------------------------------------------------------------------
(* The run of openBox(y, x) *)

Dims(maxCells) ==
    {d \in (0 .. maxCells) \X (0 .. maxCells) : d[1] * d[2] <= maxCells}

Start(ys, xs, bx, tt, at) ==
    /\ ySize = ys
    /\ xSize = xs
    /\ box = bx
    /\ t = tt
    /\ pc = at
    /\ A = <<>>
    /\ b = <<>>
    /\ col = 0
    /\ row = 0
    /\ xResult = <<>>
    /\ substRow = 0
    /\ applyI = 0
    /\ locked = FALSE
    /\ fault = "none"
    /\ hist = <<>>
    /\ box0 = <<>>
    /\ A0 = <<>>
    /\ b0 = <<>>
    /\ skipped = {}

\* SecureBox(y, x): the grid resized to y rows of x false cells, then shuffle()
\* draws t = rng() % 1000.
Init ==
    \E d \in Dims(MaxCells) : \E tt \in 0 .. MaxShuffle :
        Start(d[1], d[2], EmptyBox(d[1], d[2]), tt, "shuffle")

Remember(y, x) == <<y, x, box>>

Last2(h) == IF Len(h) > 2 THEN SubSeq(h, Len(h) - 1, Len(h)) ELSE h

\* One round of shuffle's loop on a grid with cells: toggle(rng() % ySize, rng() % xSize).
ShuffleToggle ==
    /\ pc = "shuffle"
    /\ t > 0
    /\ ySize > 0 /\ xSize > 0
    /\ \E y \in Idx(ySize) : \E x \in Idx(xSize) :
          /\ box' = toggle(box, y, x)
          /\ hist' = Last2(Append(hist, Remember(y, x)))
    /\ t' = t - 1
    /\ UNCHANGED <<ySize, xSize, pc, A, b, col, row, xResult, substRow, applyI,
                   locked, fault, box0, A0, b0, skipped>>

\* One round of shuffle's loop when ySize or xSize is 0: rng() % 0 is undefined.
\* The build either traps (the run ends there) or goes on with some value as
\* the index, for which an empty grid has no cell.
ShuffleDivByZero ==
    /\ pc = "shuffle"
    /\ t > 0
    /\ ySize = 0 \/ xSize = 0
    /\ fault' = "div0"
    /\ \/ pc' = "crashed" /\ t' = t
       \/ pc' = "shuffle" /\ t' = t - 1
    /\ UNCHANGED <<ySize, xSize, box, A, b, col, row, xResult, substRow, applyI,
                   locked, hist, box0, A0, b0, skipped>>

\* shuffle's loop ends and the constructor returns; openBox allocates A and b.
ShuffleEnd ==
    /\ pc = "shuffle"
    /\ t = 0
    /\ pc' = "build"
    /\ hist' = <<>>
    /\ UNCHANGED <<ySize, xSize, box, t, A, b, col, row, xResult, substRow, applyI,
                   locked, fault, box0, A0, b0, skipped>>

\* Fill in the system of equations.
BuildSystem ==
    /\ pc = "build"
    /\ A' = BuildA(ySize, xSize)
    /\ b' = BuildB(box, ySize, xSize)
    /\ box0' = getState(box)
    /\ A0' = A'
    /\ b0' = b'
    /\ col' = 0
    /\ pc' = "gauss"
    /\ UNCHANGED <<ySize, xSize, box, t, row, xResult, substRow, applyI, locked,
                   fault, hist, skipped>>

\* A column with no true at or under the diagonal: skip it.
GaussSkip ==
    /\ pc = "gauss"
    /\ col < N
    /\ PivotOf(A, col, N) = N
    /\ col' = col + 1
    /\ skipped' = skipped \cup {col}
    /\ UNCHANGED <<ySize, xSize, box, t, pc, A, b, row, xResult, substRow, applyI,
                   locked, fault, hist, box0, A0, b0>>

\* The pivot row is swapped into row col, in A and in b.
GaussSwap ==
    /\ pc = "gauss"
    /\ col < N
    /\ PivotOf(A, col, N) < N
    /\ A' = SwapRows(A, col, PivotOf(A, col, N))
    /\ b' = SwapB(b, col, PivotOf(A, col, N))
    /\ row' = col + 1
    /\ pc' = "elim"
    /\ UNCHANGED <<ySize, xSize, box, t, col, xResult, substRow, applyI, locked,
                   fault, hist, box0, A0, b0, skipped>>

\* One row under the pivot: if its element is true, XOR the pivot row into it.
ElimRow ==
    /\ pc = "elim"
    /\ row < N
    /\ A' = ElimRowA(A, col, row, N)
    /\ b' = ElimRowB(A, b, col, row)
    /\ row' = row + 1
    /\ UNCHANGED <<ySize, xSize, box, t, pc, col, xResult, substRow, applyI, locked,
                   fault, hist, box0, A0, b0, skipped>>

\* The rows under the pivot are done: next column.
ElimEnd ==
    /\ pc = "elim"
    /\ row >= N
    /\ col' = col + 1
    /\ pc' = "gauss"
    /\ UNCHANGED <<ySize, xSize, box, t, A, b, row, xResult, substRow, applyI, locked,
                   fault, hist, box0, A0, b0, skipped>>

\* The Gauss loop ends; xResult is allocated, the substitution starts at the
\* last row (int row = y * x - 1).
GaussEnd ==
    /\ pc = "gauss"
    /\ col >= N
    /\ xResult' = AllFalse(N)
    /\ substRow' = N - 1
    /\ pc' = "subst"
    /\ UNCHANGED <<ySize, xSize, box, t, A, b, col, row, applyI, locked, fault, hist,
                   box0, A0, b0, skipped>>

SubstStep ==
    /\ pc = "subst"
    /\ substRow >= 0
    /\ xResult' = SubstRow(A, b, xResult, substRow, N)
    /\ substRow' = substRow - 1
    /\ UNCHANGED <<ySize, xSize, box, t, pc, A, b, col, row, applyI, locked, fault,
                   hist, box0, A0, b0, skipped>>

SubstEnd ==
    /\ pc = "subst"
    /\ substRow < 0
    /\ applyI' = 0
    /\ pc' = "apply"
    /\ UNCHANGED <<ySize, xSize, box, t, A, b, col, row, xResult, substRow, locked,
                   fault, hist, box0, A0, b0, skipped>>

\* One round of the replay: if (xResult[i]) box.toggle(i / x, i % x).
ApplyStep ==
    /\ pc = "apply"
    /\ applyI < N
    /\ IF xResult[applyI]
       THEN IF applyI \div xSize \in Idx(ySize) /\ applyI % xSize \in Idx(xSize)
            THEN /\ box' = toggle(box, applyI \div xSize, applyI % xSize)
                 /\ hist' = Last2(Append(hist, Remember(applyI \div xSize, applyI % xSize)))
                 /\ fault' = fault
            ELSE /\ fault' = "range"
                 /\ UNCHANGED <<box, hist>>
       ELSE UNCHANGED <<box, hist, fault>>
    /\ applyI' = applyI + 1
    /\ UNCHANGED <<ySize, xSize, t, pc, A, b, col, row, xResult, substRow, locked,
                   box0, A0, b0, skipped>>

\* return box.isLocked()
ApplyEnd ==
    /\ pc = "apply"
    /\ applyI >= N
    /\ locked' = isLocked(box)
    /\ pc' = "done"
    /\ UNCHANGED <<ySize, xSize, box, t, A, b, col, row, xResult, substRow, applyI,
                   fault, hist, box0, A0, b0, skipped>>

Solver ==
    \/ BuildSystem
    \/ GaussSkip
    \/ GaussSwap
    \/ ElimRow
    \/ ElimEnd
    \/ GaussEnd
    \/ SubstStep
    \/ SubstEnd
    \/ ApplyStep
    \/ ApplyEnd

Next ==
    \/ ShuffleToggle
    \/ ShuffleDivByZero
    \/ ShuffleEnd
    \/ Solver

Spec == Init /\ [][Next]_vars

\* The solver on an arbitrary grid of at least one cell, as getState may hand
\* it over: the run starts where the constructor has returned.
InitAny ==
    \E d \in Dims(MaxAnyCells) :
        /\ d[1] > 0 /\ d[2] > 0
        /\ \E bx \in [Idx(d[1]) -> [Idx(d[2]) -> BOOLEAN]] :
              Start(d[1], d[2], bx, 0, "build")

NextAny == Solver

SpecAny == InitAny /\ [][NextAny]_vars

----------------------------------------------------------------------------
(* Vocabulary of the properties *)

Vectors(n) == [Idx(n) -> BOOLEAN]

RECURSIVE Dot(_, _, _, _)
\* The XOR over c = k .. n-1 of w[c] AND v[c]
Dot(w, v, k, n) == IF k >= n THEN FALSE ELSE (w[k] /\ v[k]) # Dot(w, v, k + 1, n)

\* M * v over GF(2)
MatVec(M, v, n) == [r \in Idx(n) |-> Dot(M[r], v, 0, n)]

\* v solves M * v = w: every equation holds
Solves(M, w, v, n) == \A r \in Idx(n) : Dot(M[r], v, 0, n) = w[r]

XorVec(v, w, n) == [k \in Idx(n) |-> v[k] # w[k]]

\* The grid as a vector, index = row * xSize + col.
Flat(bx) == [k \in Idx(N) |-> bx[k \div xSize][k % xSize]]

BoxAllFalse(bx) == \A y \in Idx(ySize) : \A x \in Idx(xSize) : ~bx[y][x]

HasCells == ySize >= 1 /\ xSize >= 1

\* The grid the solver started from: box until the build has read it, box0 after.
StartGrid == IF pc \in {"shuffle", "build"} THEN box ELSE box0

RECURSIVE ToggleClosure(_)
\* The grids some finite sequence of toggle calls produces from those of S.
ToggleClosure(S) ==
    LET more == S \cup {toggle(g, y, x) : g \in S, y \in Idx(ySize), x \in Idx(xSize)}
    IN  IF more = S THEN S ELSE ToggleClosure(more)

SameCells(g, bx) == \A y \in Idx(ySize) : \A x \in Idx(xSize) : g[y][x] = bx[y][x]

Reachable(bx) == \E g \in ToggleClosure({EmptyBox(ySize, xSize)}) : SameCells(g, bx)

Substituted == pc \in {"apply", "done"}

Eliminated == pc \in {"subst", "apply", "done"}

\* The column of the first true of row r of M; n if the row is all false.
Lead(M, r, n) ==
    IF \E k \in Idx(n) : M[r][k]
    THEN CHOOSE k \in Idx(n) : M[r][k] /\ \A j \in Idx(k) : ~M[r][j]
    ELSE n

\* The toggles the replay has made so far: xResult cut off at applyI.
Replayed == [k \in Idx(N) |-> k < applyI /\ xResult[k]]

----------------------------------------------------------------------------
(* The claims *)

\* C1: round trip. On a grid of at least one cell scrambled by toggles from
\* all-false, the xResult of elimination and back-substitution solves the
\* system as built (A * xResult = b), and after the replay every cell is false
\* and openBox returns false.
C1_RoundTrip ==
    HasCells =>
        /\ Substituted =>
              MatVec(A0, xResult, N) = b0
        /\ pc = "done" => BoxAllFalse(box) /\ locked = FALSE

\* C1 witness: a finished run on a scrambled grid wider and higher than one
\* cell whose system is singular (a column was skipped), opened by toggles.
C1_Witness ==
    /\ pc = "done"
    /\ ySize >= 2 /\ xSize >= 2
    /\ skipped # {}
    /\ ~BoxAllFalse(box0)
    /\ \E k \in Idx(N) : xResult[k]
    /\ BoxAllFalse(box) /\ locked = FALSE

C3_DegenerateSolved ==
    (ySize = 0 \/ xSize = 0) =>
        /\ fault = "none"
        /\ pc # "crashed"
        /\ pc = "done" => locked = FALSE /\ xResult = <<>>

\* C4: negative scenario. On a grid no sequence of toggles produces from
\* all-false, the solver goes through no fault, and when it has finished the
\* grid has a true cell and the result is true.
C4_NegativeScenario ==
    (pc = "done" \/ pc = "crashed" \/ fault # "none") =>
        (~Reachable(StartGrid) =>
            /\ fault = "none"
            /\ pc = "done"
            /\ ~BoxAllFalse(box)
            /\ locked = TRUE)

\* C4 witness: a finished run on an unreachable grid, some toggles replayed.
C4_Witness ==
    /\ pc = "done"
    /\ ~Reachable(box0)
    /\ \E k \in Idx(N) : xResult[k]
    /\ box # box0
    /\ locked = TRUE

\* C5: linearity. With x1 the xResult of the grid b1, for every b2 the
\* solution of b1 XOR b2 is x1 XOR the solution of b2; the all-false grid
\* yields the all-false xResult.
C5_Linearity ==
    (pc = "apply" /\ applyI = 0) =>
        LET sol == [v \in Vectors(N) |-> SolveX(A0, v, N)]
        IN  /\ sol[b0] = xResult
            /\ \A b2 \in Vectors(N) : sol[XorVec(b0, b2, N)] = XorVec(xResult, sol[b2], N)
            /\ BoxAllFalse(box0) => xResult = AllFalse(N)

\* C5 witness: the substitution has finished on a grid with true cells of a
\* singular system, with a toggle to make.
C5_Witness ==
    /\ pc = "apply" /\ applyI = 0
    /\ ySize >= 2 /\ xSize >= 2
    /\ skipped # {}
    /\ ~BoxAllFalse(box0)
    /\ \E k \in Idx(N) : xResult[k]

\* C6: toggle is its own inverse. Two toggle calls in succession at the same
\* position leave the grid as it was before the first.
C6_ToggleTwice ==
    (Len(hist) = 2 /\ hist[1][1] = hist[2][1] /\ hist[1][2] = hist[2][2]) =>
        box = hist[1][3]

\* C6 witness: two toggles in succession at one position of a grid that has
\* cells outside its row and column, the first of which changed the grid.
C6_Witness ==
    /\ Len(hist) = 2
    /\ hist[1][1] = hist[2][1] /\ hist[1][2] = hist[2][2]
    /\ ySize >= 2 /\ xSize >= 2
    /\ hist[2][3] # hist[1][3]

\* C7: the matrix is faithful to toggle. As built, A[i][j] is true iff
\* toggle(j / x, j % x) changes cell (i / x, i % x), iff the cells i and j
\* share a row or a column; and the grid during and after the replay is
\* b XOR A * (the toggles replayed).
C7_MatrixFaithful ==
    /\ (pc = "gauss" /\ col = 0) =>
          \A i \in Idx(N) : \A j \in Idx(N) :
              /\ A[i][j] <=> (toggle(box, j \div xSize, j % xSize)[i \div xSize][i % xSize]
                                # box[i \div xSize][i % xSize])
              /\ A[i][j] <=> (i \div xSize = j \div xSize \/ i % xSize = j % xSize)
    /\ Substituted =>
          Flat(box) = XorVec(b0, MatVec(A0, Replayed, N), N)

\* C7 witness: the replay has toggled at least twice on a grid wider and
\* higher than one cell.
C7_Witness ==
    /\ pc = "done"
    /\ ySize >= 2 /\ xSize >= 2
    /\ Cardinality({k \in Idx(N) : xResult[k]}) >= 2

\* C8 as stated: after the elimination A is in row-echelon form, the leading
\* true of every row that has one strictly right of the leading true of every
\* row above that has one.
C8_RowEchelon ==
    Eliminated =>
        \A r1 \in Idx(N) : \A r2 \in Idx(N) :
            (r1 < r2 /\ Lead(A, r1, N) < N /\ Lead(A, r2, N) < N) =>
                Lead(A, r1, N) < Lead(A, r2, N)

\* C8 amended: after the elimination A is upper triangular. Every row r is
\* false in the columns left of r; the row of a column that had a pivot has
\* its leading true on the diagonal; the row left at a skipped column is false
\* on the diagonal too.
C8_UpperTriangular ==
    Eliminated =>
        \A r \in Idx(N) :
            /\ \A k \in Idx(r) : ~A[r][k]
            /\ A[r][r] <=> r \notin skipped

\* C8 witness: after the elimination, the row left at a skipped column has a
\* true right of the diagonal, above a pivot row.
C8_Witness ==
    /\ Eliminated
    /\ \E r \in skipped : Lead(A, r, N) < N /\ \E r2 \in Idx(N) \ skipped : r2 > r

\* C9: elimination invariant. Once column c is processed, and from then on,
\* every row under c is false in column c, unless c had no pivot.
C9_ElimInvariant ==
    pc \in {"gauss", "elim", "subst", "apply", "done"} =>
        \A k \in Idx(col) :
            k \notin skipped => \A r \in (k + 1) .. (N - 1) : ~A[r][k]

\* C9 witness: the loop is between two columns, past a column whose lower
\* rows it had to clear and past a skipped one.
C9_Witness ==
    /\ pc = "gauss"
    /\ col >= 2 /\ col < N
    /\ skipped # {}
    /\ \E k \in Idx(col) \ skipped : \E r \in (k + 1) .. (N - 1) : A0[r][k]

\* C10: elimination preserves the system. At every point of the elimination
\* and after it, (A, b) has the solutions of the system as built.
C10_SameSolutions ==
    pc \in {"gauss", "elim", "subst", "apply", "done"} =>
        \A v \in Vectors(N) : Solves(A, b, v, N) <=> Solves(A0, b0, v, N)

\* C10 witness: in the middle of an elimination, after a swap of two rows
\* whose b differ and an XOR into a row, on a system that has a solution.
C10_Witness ==
    /\ pc = "elim"
    /\ row > col + 1
    /\ A # A0
    /\ b # b0
    /\ \E v \in Vectors(N) : Solves(A, b, v, N)

====
